---- MODULE Spec2Model ----
(***************************************************************************)
(* dhpoware/glLoader: the run-time OpenGL loader (module OpenGL,           *)
(* src/OpenGL.cpp) and the Windows application that uses it                *)
(* (GLApplication, src/Main.cpp).                                          *)
(*                                                                         *)
(* Two specifications share the variables:                                 *)
(*   LibSpec  module OpenGL driven by an arbitrary single-threaded caller  *)
(*            of its public operations;                                    *)
(*   Spec     the program: wWinMain -> GLApplication::run -> process end.  *)
(*                                                                         *)
(* Addresses are integers: 0 is the null pointer, 1, 2, 3 and AllOnes are  *)
(* the values line 91 of src/OpenGL.cpp tests for.  Handles (HMODULE, HDC, *)
(* HGLRC, HWND) are 0 (null) or one non-null token each.                   *)
(***************************************************************************)
EXTENDS Integers, Sequences, FiniteSets, TLC

\* reinterpret_cast<void*>(-1): the all-ones pointer, written as the
\* integer the source casts.
AllOnes == -1

\* How many messages the operating system delivers to the window in one run.
MaxMsgs == 2

\* How many frames the main loop may produce in one run.
MaxFrames == 2

\* How many OpenGLContext objects a caller of the module makes in one run.

\* The wrapped entry points of the model: the six the application calls
\* (through OpenGLContext members and the free gl* functions).  Each one is
\* an instance of the LOAD_ENTRYPOINT pattern.
WglEntryPoints == {"wglCreateContext", "wglMakeCurrent", "wglDeleteContext"}

GlEntryPoints == {"glViewport", "glClearColor", "glClear"}

EntryPoints == WglEntryPoints \cup GlEntryPoints

\* Names a caller may hand to OpenGLContext::wglGetProcAddress: every entry
\* point and one name nobody wraps.
ProcNames == EntryPoints \cup {"fnC"}

Idx(name) ==
    CASE name = "wglCreateContext" -> 1
      [] name = "wglMakeCurrent"   -> 2
      [] name = "wglDeleteContext" -> 3
      [] name = "glViewport"       -> 4
      [] name = "glClearColor"     -> 5
      [] name = "glClear"          -> 6
      [] OTHER                     -> 7

\* The address opengl32.dll exports a name at, when it exports it.
ExportAddr(name) == 256 + Idx(name)

\* The address the driver's wglGetProcAddress gives for a name, when it
\* gives a usable one.
ExtAddr(name) == 512 + Idx(name)

\* What the driver's wglGetProcAddress may return for a name.
ExtResults(name) == {0, 1, 2, 3, AllOnes, ExtAddr(name)}

\* What GetProcAddress(m_hLibGL, name) may return: null or the export.
ExportResults(name) == {0, ExportAddr(name)}

\* Two threads of the process that invoke one wrapper at the same time, and
\* the wrapper they invoke (glClear, lines 363-369).
Threads == {"t1", "t2"}

RaceEntry == "glClear"

VARIABLES
    \* ---- the machine the process runs on (fixed during a run) ----
    NDEBUG,                  \* TRUE: assert() is compiled out
    libLoadable,             \* LoadLibraryA("opengl32.dll") succeeds
    wglExported,             \* opengl32.dll exports wglGetProcAddress
    \* ---- class Loader, the function-local static theInstance ----
    theInstance,             \* "none" | "constructing" | "live" | "destroyed"
    m_hLibGL,                \* 0 | 1
    m_pfnWglGetProcAddress,  \* 0 | 1
    \* ---- the LOAD_ENTRYPOINT variables: for a gl* entry point the static
    \* ---- local of its wrapper, for a wgl* entry point the m_pfnWgl*
    \* ---- member of the OpenGLContext the caller holds ----
    slot,                    \* [EntryPoints -> address], 0 = not resolved
    \* ---- the process ----
    proc,                    \* "running" | "aborted" | "crashed" | "exited"
    \* ---- what the operating system and the driver saw ----
    nLoadLibrary,            \* calls of LoadLibraryA
    nWglLookup,              \* GetProcAddress(m_hLibGL, "wglGetProcAddress")
    nFreeLibrary,            \* calls of FreeLibrary
    handlesHeld,             \* handles to opengl32.dll currently open
    nResolve,                \* [EntryPoints -> resolver calls made for its variable]
    everResolved,            \* entry points resolved so far in this process
    through,                 \* [EntryPoints -> addresses called through its variable]
    lastResolve,             \* the latest Loader::getProcAddress call
    lastOp,                  \* the latest public operation and what it did
    rcState,                 \* native rendering context: "none"|"created"|"deleted"
    rcCurrent,               \* the native context is current on the thread
    \* ---- class GLApplication ----
    pc,                      \* position in wWinMain / run
    m_hWnd, m_hDC, m_hRC,    \* 0 | 1
    m_pContext,              \* TRUE: holds an OpenGLContext
    status,                  \* run's local 'status'
    msgBox,                  \* MessageBox calls made by run
    queue,                   \* the thread's message queue
    msg,                     \* mainLoop's local 'msg': [message, wParam]
    nPosted,                 \* messages the operating system has delivered
    nFrames,                 \* frames produced
    windowAlive,             \* the window exists
    quitPosted,              \* PostQuitMessage's pending exit code, -1 = none
    thrown,                  \* run is handling a GLApplication::Error
    log,                     \* the application's calls, in order
    \* ---- two threads inside the wrapper of RaceEntry ----
    tpc,                     \* [Threads -> position in the wrapper]
    treg,                    \* [Threads -> the value of the variable it holds]
    resolved                 \* the addresses the resolver gave the threads

loaderVars == <<theInstance, m_hLibGL, m_pfnWglGetProcAddress, nLoadLibrary,
                nWglLookup, nFreeLibrary, handlesHeld>>

envVars == <<NDEBUG, libLoadable, wglExported>>

driverVars == <<rcState, rcCurrent>>

appVars == <<pc, m_hWnd, m_hDC, m_hRC, status, msgBox, queue, msg, nPosted,
             nFrames, windowAlive, quitPosted, thrown, log>>

raceVars == <<tpc, treg, resolved>>

vars == <<envVars, loaderVars, slot, proc, nResolve, everResolved, through,
         lastResolve,
          lastOp, driverVars, m_pContext, appVars, raceVars>>

(***************************************************************************)
(* class Loader                                                            *)
(***************************************************************************)

\* Loader::Loader, line 66: m_hLibGL = LoadLibraryA("opengl32.dll").
CtorHLib == IF libLoadable THEN 1 ELSE 0

\* Loader::Loader, lines 68-71: the extension-query function is looked up
\* only in a library that loaded.
CtorPfn(hLib) == IF hLib # 0 /\ wglExported THEN 1 ELSE 0

MustConstruct_EveryCall(state) == state # "destroyed"

\* Loader::instance, line 60: a function-local static is constructed by the
\* first call that reaches its declaration, and by no later one.
MustConstruct(state) == state = "none"

\* The Loader's fields as Loader::instance() hands them to the caller.
InstHLib == IF MustConstruct(theInstance) THEN CtorHLib ELSE m_hLibGL

InstPfn ==
    IF MustConstruct(theInstance) THEN CtorPfn(CtorHLib)
    ELSE m_pfnWglGetProcAddress

IsInvalidProc_NoAllOnes(pfn) == pfn = 0 \/ pfn = 1 \/ pfn = 2 \/ pfn = 3

\* Line 91: the extension query's result counts as a failure.
IsInvalidProc(pfn) ==
    pfn = 0 \/ pfn = 1 \/ pfn = 2 \/ pfn = 3 \/ pfn = AllOnes

GetProcAddress_AlwaysLookup(hLib, pfnWgl, name, ext, exported) ==
    IF pfnWgl # 0
    THEN [ret |-> IF exported # 0 THEN exported ELSE ext,
          queried |-> TRUE, looked |-> TRUE,
          hLib |-> hLib, pfnWgl |-> pfnWgl, raised |-> FALSE]
    ELSE [ret |-> 0, queried |-> FALSE, looked |-> FALSE,
          hLib |-> hLib, pfnWgl |-> pfnWgl, raised |-> FALSE]

GetProcAddress_ThrowOnFailure(hLib, pfnWgl, name, ext, exported) ==
    IF pfnWgl # 0
    THEN IF IsInvalidProc(ext)
         THEN [ret |-> exported, queried |-> TRUE, looked |-> TRUE,
               hLib |-> hLib, pfnWgl |-> pfnWgl, raised |-> exported = 0]
         ELSE [ret |-> ext, queried |-> TRUE, looked |-> FALSE,
               hLib |-> hLib, pfnWgl |-> pfnWgl, raised |-> FALSE]
    ELSE [ret |-> 0, queried |-> FALSE, looked |-> FALSE,
          hLib |-> hLib, pfnWgl |-> pfnWgl, raised |-> TRUE]

GetProcAddress_LookupWithoutQuery(hLib, pfnWgl, name, ext, exported) ==
    IF pfnWgl # 0
    THEN IF IsInvalidProc(ext)
         THEN [ret |-> exported, queried |-> TRUE, looked |-> TRUE,
               hLib |-> hLib, pfnWgl |-> pfnWgl, raised |-> FALSE]
         ELSE [ret |-> ext, queried |-> TRUE, looked |-> FALSE,
               hLib |-> hLib, pfnWgl |-> pfnWgl, raised |-> FALSE]
    ELSE IF hLib # 0
    THEN [ret |-> exported, queried |-> FALSE, looked |-> TRUE,
          hLib |-> hLib, pfnWgl |-> pfnWgl, raised |-> FALSE]
    ELSE [ret |-> 0, queried |-> FALSE, looked |-> FALSE,
          hLib |-> hLib, pfnWgl |-> pfnWgl, raised |-> FALSE]

\* Loader::getProcAddress, lines 83-98, on a Loader whose fields are hLib
\* and pfnWgl.  ext is what m_pfnWglGetProcAddress(name) returns if it is
\* called, exported what GetProcAddress(m_hLibGL, name) returns if it is
\* called.  The result says what was returned (ret), which of the two calls
\* were made (queried, looked), the fields afterwards (the method is const)
\* and whether the method left by an exception or assertion (it has none).
GetProcAddress(hLib, pfnWgl, name, ext, exported) ==
    IF pfnWgl # 0
    THEN IF IsInvalidProc(ext)
         THEN [ret |-> exported, queried |-> TRUE, looked |-> TRUE,
               hLib |-> hLib, pfnWgl |-> pfnWgl, raised |-> FALSE]
         ELSE [ret |-> ext, queried |-> TRUE, looked |-> FALSE,
               hLib |-> hLib, pfnWgl |-> pfnWgl, raised |-> FALSE]
    ELSE [ret |-> 0, queried |-> FALSE, looked |-> FALSE,
          hLib |-> hLib, pfnWgl |-> pfnWgl, raised |-> FALSE]

\* Loader::instance().getProcAddress(name), lines 58-62 then 83-98: the
\* Loader is constructed if this is the first use, then asked.
Resolve(name, ext, exported) ==
    LET first == MustConstruct(theInstance)
        r == GetProcAddress(InstHLib, InstPfn, name, ext, exported)
    IN  /\ theInstance' = "live"
        /\ m_hLibGL' = r.hLib
        /\ m_pfnWglGetProcAddress' = r.pfnWgl
        /\ nLoadLibrary' = IF first THEN nLoadLibrary + 1 ELSE nLoadLibrary
        /\ nWglLookup' =
               IF first /\ CtorHLib # 0 THEN nWglLookup + 1 ELSE nWglLookup
        /\ handlesHeld' =
               IF first /\ CtorHLib # 0 THEN handlesHeld + 1 ELSE handlesHeld
        /\ nFreeLibrary' = nFreeLibrary
        /\ lastResolve' =
               [name |-> name,
                ext |-> IF r.queried THEN ext ELSE 0,
                exported |-> exported,
                queried |-> r.queried, looked |-> r.looked, ret |-> r.ret,
                hLibIn |-> InstHLib, pfnIn |-> InstPfn,
                hLibOut |-> r.hLib, pfnOut |-> r.pfnWgl,
                raised |-> r.raised]

\* Loader::~Loader, lines 74-81, run with the other static destructors when
\* the process exits normally, and only for a Loader that was constructed.
LoaderDtor ==
    IF theInstance = "live"
    THEN /\ theInstance' = "destroyed"
         /\ nFreeLibrary' = IF m_hLibGL # 0 THEN nFreeLibrary + 1 ELSE nFreeLibrary
         /\ handlesHeld' = IF m_hLibGL # 0 THEN handlesHeld - 1 ELSE handlesHeld
         /\ m_hLibGL' = 0
         /\ UNCHANGED <<m_pfnWglGetProcAddress, nLoadLibrary, nWglLookup>>
    ELSE UNCHANGED loaderVars

(***************************************************************************)
(* LOAD_ENTRYPOINT and the wrappers built on it                            *)
(***************************************************************************)

NeedsResolve_Always(var) == TRUE

\* Line 31: "if (!var)".
NeedsResolve(var) == var = 0

\* The address the wrapper of e calls through: the one just resolved, or
\* the cached one.
Target(e, ext, exported) ==
    IF NeedsResolve(slot[e])
    THEN GetProcAddress(InstHLib, InstPfn, e, ext, exported).ret
    ELSE slot[e]

\* Lines 30-35 without the assertion: resolve on an empty variable and
\* store the result.
LoadEntryPoint(e, ext, exported) ==
    IF NeedsResolve(slot[e])
    THEN /\ Resolve(e, ext, exported)
         /\ slot' = [slot EXCEPT ![e] = Target(e, ext, exported)]
         /\ nResolve' = [nResolve EXCEPT ![e] = @ + 1]
         /\ everResolved' = everResolved \cup {e}
    ELSE UNCHANGED <<loaderVars, slot, nResolve, everResolved, lastResolve>>

\* Line 34: assert(var != nullptr) stops a debug build (abort()).
AssertFails(e, ext, exported) ==
    NeedsResolve(slot[e]) /\ Target(e, ext, exported) = 0 /\ ~NDEBUG

\* The call through the variable reaches a function.  A release build that
\* resolved nothing calls address 0, which is never mapped: the access
\* violation ends the process (no handler in this repository catches it and
\* resumes).
Reaches(e, ext, exported) == Target(e, ext, exported) # 0

\* What the driver may answer to a call that reaches it.
\* wglCreateContext(hdc): a context (1) only on a device context and while
\* the model's one native context does not exist; 0 is always possible.
\* wglMakeCurrent(hdc, hglrc) and wglDeleteContext(hglrc): TRUE (1) or FALSE
\* (0); a context that does not exist is never made current or deleted.
DriverMay(e, arg, rv) ==
    CASE e = "wglCreateContext" ->
             rv \in {0, 1} /\ (rv = 1 => arg # 0 /\ rcState = "none")
      [] e = "wglMakeCurrent" ->
             rv \in {0, 1} /\ (rv = 1 /\ arg # 0 => rcState = "created")
      [] e = "wglDeleteContext" ->
             rv \in {0, 1} /\ (rv = 1 => arg # 0 /\ rcState = "created")
      [] OTHER -> rv = 0

\* The driver's state after a call that reached it.
DriverEffect(e, arg, rv) ==
    CASE e = "wglCreateContext" ->
             /\ rcState' = IF rv = 1 THEN "created" ELSE rcState
             /\ UNCHANGED rcCurrent
      [] e = "wglMakeCurrent" ->
             /\ rcCurrent' = IF rv = 1 THEN arg # 0 ELSE rcCurrent
             /\ UNCHANGED rcState
      [] e = "wglDeleteContext" ->
             /\ rcState' = IF rv = 1 THEN "deleted" ELSE rcState
             /\ rcCurrent' = IF rv = 1 THEN FALSE ELSE rcCurrent
      [] OTHER -> UNCHANGED driverVars

\* One invocation of the wrapper of entry point e (for instance lines
\* 127-131, 174-178, 139-143, 363-369): LOAD_ENTRYPOINT, then the call
\* through the variable with argument arg, the driver answering rv.
Invoke(e, arg, ext, exported, rv) ==
    /\ LoadEntryPoint(e, ext, exported)
    /\ IF AssertFails(e, ext, exported)
       THEN /\ proc' = "aborted"
            /\ UNCHANGED <<through, driverVars>>
       ELSE IF ~Reaches(e, ext, exported)
       THEN /\ proc' = "crashed"
            /\ through' = [through EXCEPT ![e] = @ \cup {0}]
            /\ UNCHANGED driverVars
       ELSE /\ proc' = proc
            /\ through' =
                   [through EXCEPT ![e] = @ \cup {Target(e, ext, exported)}]
            /\ DriverMay(e, arg, rv)
            /\ DriverEffect(e, arg, rv)

(***************************************************************************)
(* class OpenGLContext: the operations that are not plain wrappers         *)
(***************************************************************************)

CreateForWindow_NoDCCheck(dcOk, pf, setOk) ==
    IF ~setOk
    THEN [ret |-> FALSE, dc |-> dcOk, pf |-> pf,
          choseFormat |-> TRUE, setFormat |-> TRUE]
    ELSE [ret |-> TRUE, dc |-> dcOk, pf |-> pf,
          choseFormat |-> TRUE, setFormat |-> TRUE]

\* OpenGLContext::createForWindow, lines 104-119.  dcOk: GetDC(hWnd) gave a
\* device context; pf: what ChoosePixelFormat returns; setOk: what
\* SetPixelFormat returns.  ret: a non-empty shared_ptr is returned.  The
\* result of ChoosePixelFormat is handed to SetPixelFormat untested.
CreateForWindow(dcOk, pf, setOk) ==
    IF ~dcOk
    THEN [ret |-> FALSE, dc |-> FALSE, pf |-> 0,
          choseFormat |-> FALSE, setFormat |-> FALSE]
    ELSE IF ~setOk
    THEN [ret |-> FALSE, dc |-> TRUE, pf |-> pf,
          choseFormat |-> TRUE, setFormat |-> TRUE]
    ELSE [ret |-> TRUE, dc |-> TRUE, pf |-> pf,
          choseFormat |-> TRUE, setFormat |-> TRUE]

\* What is kept per entry-point variable, after the caller's OpenGLContext
\* was replaced: the m_pfnWgl* members belong to the object and are new and
\* empty in a new one (and there are none when the caller holds no object);
\* the static locals of the gl* wrappers are not touched.
NewContext(f, empty) ==
    [e \in EntryPoints |-> IF e \in WglEntryPoints THEN empty ELSE f[e]]

\* A call of createForWindow by a caller that keeps the result in
\* m_pContext in place of what it held.  Line 106 makes a new OpenGLContext
\* on every call.  The call touches neither the Loader nor the driver.
CreateForWindowCall(dcOk, pf, setOk) ==
    LET r == CreateForWindow(dcOk, pf, setOk)
    IN  /\ m_pContext' = r.ret
        /\ slot' = NewContext(slot, 0)
        /\ nResolve' = NewContext(nResolve, 0)
        /\ through' = NewContext(through, {})
        /\ lastOp' = [op |-> "createForWindow", ret |-> r.ret, dc |-> r.dc,
                      pf |-> r.pf, choseFormat |-> r.choseFormat,
                      setFormat |-> r.setFormat]
        /\ UNCHANGED <<loaderVars, everResolved, lastResolve, proc, driverVars>>

SwapBuffersCall_ViaLoader(hdc) ==
    /\ \E ext \in ExtResults("SwapBuffers") :
         \E exported \in ExportResults("SwapBuffers") :
            Resolve("SwapBuffers", ext, exported)
    /\ lastOp' = [op |-> "SwapBuffers", hdc |-> hdc]
    /\ UNCHANGED <<slot, nResolve, everResolved, through, proc, driverVars>>

\* OpenGLContext::SwapBuffers, lines 198-209: ::SwapBuffers(hdc) of gdi32,
\* with no LOAD_ENTRYPOINT.
SwapBuffersCall(hdc) ==
    /\ lastOp' = [op |-> "SwapBuffers", hdc |-> hdc]
    /\ UNCHANGED <<loaderVars, slot, nResolve, everResolved, through, lastResolve, proc,
                   driverVars>>

\* OpenGLContext::wglGetProcAddress, lines 169-172: the resolver itself,
\* with no variable and no assertion.  An exception leaving getProcAddress
\* would leave this function too and end a caller that does not catch it.
WglGetProcAddressCall(name, ext, exported) ==
    /\ Resolve(name, ext, exported)
    /\ proc' = IF GetProcAddress(InstHLib, InstPfn, name, ext, exported).raised
               THEN "aborted" ELSE proc
    /\ lastOp' = [op |-> "wglGetProcAddress", name |-> name]
    /\ UNCHANGED <<slot, nResolve, everResolved, through, driverVars>>

\* A wrapper invoked as a public operation.
InvokeCall(e, arg, ext, exported, rv) ==
    /\ Invoke(e, arg, ext, exported, rv)
    /\ lastOp' = [op |-> e, arg |-> arg,
                  again |-> NeedsResolve(slot[e]) /\ e \in everResolved,
                  reached |-> Reaches(e, ext, exported),
                  rv |-> IF Reaches(e, ext, exported) THEN rv ELSE 0]

\* The process ends normally: the static Loader is destroyed.
ExitProcess ==
    /\ proc' = "exited"
    /\ LoaderDtor
    /\ lastOp' = [op |-> "exit"]
    /\ UNCHANGED <<slot, nResolve, everResolved, through, lastResolve, driverVars>>

(***************************************************************************)
(* The initial state: nothing loaded, nothing resolved, wWinMain not yet   *)
(* entered; the machine is any machine.                                    *)
(***************************************************************************)

NoResolve ==
    [name |-> "", ext |-> 0, exported |-> 0, queried |-> FALSE,
     looked |-> FALSE, ret |-> 0, hLibIn |-> 0, pfnIn |-> 0, hLibOut |-> 0,
     pfnOut |-> 0, raised |-> FALSE]

Init ==
    /\ NDEBUG \in BOOLEAN
    /\ libLoadable \in BOOLEAN
    /\ wglExported \in BOOLEAN
    /\ theInstance = "none"
    /\ m_hLibGL = 0
    /\ m_pfnWglGetProcAddress = 0
    /\ slot = [e \in EntryPoints |-> 0]
    /\ proc = "running"
    /\ nLoadLibrary = 0
    /\ nWglLookup = 0
    /\ nFreeLibrary = 0
    /\ handlesHeld = 0
    /\ nResolve = [e \in EntryPoints |-> 0]
    /\ everResolved = {}
    /\ through = [e \in EntryPoints |-> {}]
    /\ lastResolve = NoResolve
    /\ lastOp = [op |-> "none"]
    /\ rcState = "none"
    /\ rcCurrent = FALSE
    /\ pc = "start"
    /\ m_hWnd = 0
    /\ m_hDC = 0
    /\ m_hRC = 0
    /\ m_pContext = FALSE
    /\ status = 0
    /\ msgBox = 0
    /\ queue = <<>>
    /\ msg = [message |-> "none", wParam |-> 0]
    /\ nPosted = 0
    /\ nFrames = 0
    /\ windowAlive = FALSE
    /\ quitPosted = -1
    /\ thrown = FALSE
    /\ log = <<>>
    /\ tpc = [t \in Threads |-> "test"]
    /\ treg = [t \in Threads |-> 0]
    /\ resolved = {}

(***************************************************************************)
(* LibSpec: module OpenGL under an arbitrary caller.  The caller holds at  *)
(* most one OpenGLContext (m_pContext); the wgl* wrappers are its members  *)
(* and need it, the gl* wrappers are free functions.                       *)
(***************************************************************************)

\* The entry points and names the arbitrary caller uses.
LibEntryPoints == {"wglCreateContext", "wglDeleteContext", "glClear"}

LibProcNames == {"glClear", "fnC"}

\* createForWindow is static and makes a new OpenGLContext on every call
\* (line 106); the caller keeps the result in place of what it held.
LibCreateForWindow ==
    /\ proc = "running"
    /\ \E dcOk \in BOOLEAN, pf \in {0, 1}, setOk \in BOOLEAN :
          CreateForWindowCall(dcOk, pf, setOk)
    /\ UNCHANGED <<envVars, raceVars, appVars>>

LibInvoke ==
    /\ proc = "running"
    /\ \E e \in LibEntryPoints :
          /\ e \in WglEntryPoints => m_pContext
          /\ \E arg \in {0, 1}, ext \in ExtResults(e),
                exported \in ExportResults(e), rv \in {0, 1} :
                InvokeCall(e, arg, ext, exported, rv)
    /\ UNCHANGED <<envVars, raceVars, m_pContext, appVars>>

LibGetProcAddress ==
    /\ proc = "running"
    /\ m_pContext
    /\ \E name \in LibProcNames :
          \E ext \in ExtResults(name), exported \in ExportResults(name) :
             WglGetProcAddressCall(name, ext, exported)
    /\ UNCHANGED <<envVars, raceVars, m_pContext, appVars>>

LibSwapBuffers ==
    /\ proc = "running"
    /\ m_pContext
    /\ \E hdc \in {0, 1} : SwapBuffersCall(hdc)
    /\ UNCHANGED <<envVars, raceVars, m_pContext, appVars>>

LibExit ==
    /\ proc = "running"
    /\ ExitProcess
    /\ m_pContext' = FALSE
    /\ UNCHANGED <<envVars, raceVars, appVars>>

LibNext ==
    \/ LibCreateForWindow
    \/ LibInvoke
    \/ LibGetProcAddress
    \/ LibSwapBuffers
    \/ LibExit

LibSpec == Init /\ [][LibNext]_vars

(***************************************************************************)
(* RaceSpec: two threads invoke the wrapper of RaceEntry while its         *)
(* variable is empty.  The variable is a plain static pointer with no      *)
(* synchronisation: each read and each write of it is a step of its own,   *)
(* and a thread that uses the variable again may use the value it holds in *)
(* a register or load the variable anew, as the compiler chose.  A load or *)
(* store of an aligned pointer is one machine access on the targets of     *)
(* this program (Windows on x86, x64, ARM64): it reads a value some thread *)
(* stored or the initial null.  Loader::instance() is a function-local     *)
(* static, whose initialisation the language makes safe against            *)
(* concurrent first calls: a thread that calls instance() while another    *)
(* constructs the Loader waits.  getProcAddress is const and runs with no  *)
(* lock held.                                                              *)
(***************************************************************************)

\* The values a thread may use for 'var' where the source reads it again:
\* the one it holds or the one in memory.
RaceOperands(reg, mem) == {reg, mem}

\* Line 31, "if (!var)": the thread loads the variable and tests it.
RaceTest ==
    /\ proc = "running"
    /\ \E t \in Threads :
          /\ tpc[t] = "test"
          /\ treg' = [treg EXCEPT ![t] = slot[RaceEntry]]
          /\ tpc' = [tpc EXCEPT ![t] = IF NeedsResolve(slot[RaceEntry])
                                       THEN "instance" ELSE "call"]
    /\ UNCHANGED <<envVars, loaderVars, slot, proc, nResolve, everResolved, through,
                   lastResolve, lastOp, driverVars, m_pContext, appVars,
                   resolved>>

\* Line 33, Loader::instance() (lines 58-62): the first thread to reach the
\* declaration of theInstance starts the constructor, whose first statement
\* (line 66) loads the library; a thread that arrives while the constructor
\* runs waits; later the Loader is handed out as it is.
RaceInstance ==
    /\ proc = "running"
    /\ \E t \in Threads :
          /\ tpc[t] = "instance"
          /\ theInstance # "constructing"
          /\ IF MustConstruct(theInstance)
             THEN /\ theInstance' = "constructing"
                  /\ m_hLibGL' = CtorHLib
                  /\ nLoadLibrary' = nLoadLibrary + 1
                  /\ handlesHeld' =
                         IF CtorHLib # 0 THEN handlesHeld + 1 ELSE handlesHeld
                  /\ tpc' = [tpc EXCEPT ![t] = "ctor"]
                  /\ UNCHANGED <<m_pfnWglGetProcAddress, nWglLookup,
                                 nFreeLibrary>>
             ELSE /\ tpc' = [tpc EXCEPT ![t] = "getProcAddress"]
                  /\ UNCHANGED loaderVars
    /\ UNCHANGED <<envVars, slot, proc, nResolve, everResolved, through, lastResolve,
                   lastOp, driverVars, m_pContext, appVars, treg, resolved>>

\* Loader::Loader, lines 68-71, and the end of the construction: the
\* extension-query function is looked up in a library that loaded, and the
\* Loader is live.
RaceCtor ==
    /\ proc = "running"
    /\ \E t \in Threads :
          /\ tpc[t] = "ctor"
          /\ m_pfnWglGetProcAddress' = CtorPfn(m_hLibGL)
          /\ nWglLookup' = IF m_hLibGL # 0 THEN nWglLookup + 1 ELSE nWglLookup
          /\ theInstance' = "live"
          /\ tpc' = [tpc EXCEPT ![t] = "getProcAddress"]
    /\ UNCHANGED <<envVars, m_hLibGL, nLoadLibrary, nFreeLibrary, handlesHeld,
                   slot, proc, nResolve, everResolved, through, lastResolve, lastOp,
                   driverVars, m_pContext, appVars, treg, resolved>>

\* Line 33, getProcAddress(name) on the Loader instance() returned, with no
\* lock held: the driver and the library answer ext and exported.
RaceGetProcAddress ==
    /\ proc = "running"
    /\ \E t \in Threads :
          /\ tpc[t] = "getProcAddress"
          /\ \E ext \in ExtResults(RaceEntry),
                exported \in ExportResults(RaceEntry) :
                LET r == GetProcAddress(m_hLibGL, m_pfnWglGetProcAddress,
                                        RaceEntry, ext, exported)
                IN  /\ treg' = [treg EXCEPT ![t] = r.ret]
                    /\ resolved' = resolved \cup {r.ret}
                    /\ lastResolve' =
                           [name |-> RaceEntry,
                            ext |-> IF r.queried THEN ext ELSE 0,
                            exported |-> exported,
                            queried |-> r.queried, looked |-> r.looked,
                            ret |-> r.ret,
                            hLibIn |-> m_hLibGL,
                            pfnIn |-> m_pfnWglGetProcAddress,
                            hLibOut |-> r.hLib, pfnOut |-> r.pfnWgl,
                            raised |-> r.raised]
          /\ nResolve' = [nResolve EXCEPT ![RaceEntry] = @ + 1]
          /\ everResolved' = everResolved \cup {RaceEntry}
          /\ tpc' = [tpc EXCEPT ![t] = "store"]
    /\ UNCHANGED <<envVars, loaderVars, slot, proc, through, lastOp,
                   driverVars, m_pContext, appVars>>

RaceStore_Discard ==
    /\ proc = "running"
    /\ \E t \in Threads :
          /\ tpc[t] = "store"
          /\ tpc' = [tpc EXCEPT ![t] = "assert"]
    /\ UNCHANGED <<envVars, loaderVars, slot, proc, nResolve, everResolved, through,
                   lastResolve, lastOp, driverVars, m_pContext, appVars,
                   treg, resolved>>

\* Line 33, the assignment: the thread stores what it resolved.
RaceStore ==
    /\ proc = "running"
    /\ \E t \in Threads :
          /\ tpc[t] = "store"
          /\ slot' = [slot EXCEPT ![RaceEntry] = treg[t]]
          /\ tpc' = [tpc EXCEPT ![t] = "assert"]
    /\ UNCHANGED <<envVars, loaderVars, proc, nResolve, everResolved, through,
                   lastResolve, lastOp, driverVars, m_pContext, appVars,
                   treg, resolved>>

\* Line 34: assert(var != nullptr), which stops a debug build.
RaceAssert ==
    /\ proc = "running"
    /\ \E t \in Threads :
          /\ tpc[t] = "assert"
          /\ \E v \in RaceOperands(treg[t], slot[RaceEntry]) :
                IF v = 0 /\ ~NDEBUG
                THEN /\ proc' = "aborted"
                     /\ UNCHANGED tpc
                ELSE /\ proc' = proc
                     /\ tpc' = [tpc EXCEPT ![t] = "call"]
    /\ UNCHANGED <<envVars, loaderVars, slot, nResolve, everResolved, through, lastResolve,
                   lastOp, driverVars, m_pContext, appVars, treg, resolved>>

\* Line 368: the call through the variable.  A call through address 0 ends
\* the process.
RaceCall ==
    /\ proc = "running"
    /\ \E t \in Threads :
          /\ tpc[t] = "call"
          /\ \E v \in RaceOperands(treg[t], slot[RaceEntry]) :
                /\ through' = [through EXCEPT ![RaceEntry] = @ \cup {v}]
                /\ IF v = 0
                   THEN /\ proc' = "crashed"
                        /\ UNCHANGED tpc
                   ELSE /\ proc' = proc
                        /\ tpc' = [tpc EXCEPT ![t] = "done"]
    /\ UNCHANGED <<envVars, loaderVars, slot, nResolve, everResolved, lastResolve, lastOp,
                   driverVars, m_pContext, appVars, treg, resolved>>

RaceNext ==
    \/ RaceTest
    \/ RaceInstance
    \/ RaceCtor
    \/ RaceGetProcAddress
    \/ RaceStore
    \/ RaceAssert
    \/ RaceCall

RaceSpec == Init /\ [][RaceNext]_vars

(***************************************************************************)
(* class GLApplication (src/Main.cpp).  pc is the statement of run (or of  *)
(* the function it called) that executes next.                             *)
(***************************************************************************)

\* EXIT_FAILURE of <cstdlib>, assigned on line 123.
EXIT_FAILURE == 1

\* The messages the operating system may put in the thread's queue: the
\* user closes the window, the window is resized, some program posts
\* WM_DESTROY to the window, another thread posts WM_QUIT with an exit code
\* of its own.  All but WM_QUIT are addressed to the window.
OSMessages ==
    {[message |-> "WM_CLOSE", wParam |-> 0],
     [message |-> "WM_SIZE", wParam |-> 0],
     [message |-> "WM_DESTROY", wParam |-> 0],
     [message |-> "WM_QUIT", wParam |-> 3]}

Throw_Continue ==
    /\ thrown' = FALSE
    /\ pc' = "PeekMessage"

Throw_ReportFirst ==
    /\ thrown' = TRUE
    /\ pc' = "report"

\* 'throw GLApplication::Error' inside the inner try of run (lines 104-115):
\* the inner handler runs shutdown() (empty) and rethrows, the outer handler
\* (line 120) starts with destroy().
Throw ==
    /\ thrown' = TRUE
    /\ pc' = "destroy"

libUnchanged ==
    UNCHANGED <<loaderVars, slot, nResolve, everResolved, through, lastResolve, proc,
                driverVars>>

Create_FailureThrows ==
    /\ proc = "running" /\ pc = "start"
    /\ \E regOk \in BOOLEAN, winOk \in BOOLEAN :
          IF regOk /\ winOk
          THEN /\ m_hWnd' = 1
               /\ windowAlive' = TRUE
               /\ pc' = "createForWindow"
               /\ log' = Append(log, "create")
               /\ UNCHANGED thrown
          ELSE /\ Throw
               /\ UNCHANGED <<m_hWnd, windowAlive, log>>
    /\ lastOp' = [op |-> "create"]
    /\ libUnchanged
    /\ UNCHANGED <<envVars, raceVars, m_pContext, m_hDC, m_hRC, status, msgBox, queue,
                   msg, nPosted, nFrames, quitPosted>>

\* GLApplication::create, lines 130-168, called on line 102.  A false
\* result skips the whole body of run's 'if'.
Create ==
    /\ proc = "running" /\ pc = "start"
    /\ \E regOk \in BOOLEAN, winOk \in BOOLEAN :
          IF regOk /\ winOk
          THEN /\ m_hWnd' = 1
               /\ windowAlive' = TRUE
               /\ pc' = "createForWindow"
               /\ log' = Append(log, "create")
          ELSE /\ pc' = "return"
               /\ UNCHANGED <<m_hWnd, windowAlive, log>>
    /\ lastOp' = [op |-> "create"]
    /\ libUnchanged
    /\ UNCHANGED <<envVars, raceVars, m_pContext, m_hDC, m_hRC, status, msgBox, queue,
                   msg, nPosted, nFrames, quitPosted, thrown>>

\* initOpenGL, lines 223-224.
InitCreateForWindow ==
    /\ proc = "running" /\ pc = "createForWindow"
    /\ \E dcOk \in BOOLEAN, pf \in {0, 1}, setOk \in BOOLEAN :
          /\ CreateForWindowCall(dcOk, pf, setOk)
          /\ IF CreateForWindow(dcOk, pf, setOk).ret
             THEN pc' = "GetDC" /\ UNCHANGED thrown
             ELSE Throw
    /\ log' = Append(log, "createForWindow")
    /\ UNCHANGED <<envVars, raceVars, m_hWnd, m_hDC, m_hRC, status, msgBox, queue, msg,
                   nPosted, nFrames, windowAlive, quitPosted>>

\* initOpenGL, lines 226-227.
InitGetDC ==
    /\ proc = "running" /\ pc = "GetDC"
    /\ \E hdc \in {0, 1} :
          /\ m_hDC' = hdc
          /\ IF hdc # 0
             THEN pc' = "wglCreateContext" /\ UNCHANGED thrown
             ELSE Throw
    /\ log' = Append(log, "GetDC")
    /\ lastOp' = [op |-> "GetDC"]
    /\ libUnchanged
    /\ UNCHANGED <<envVars, raceVars, m_pContext, m_hWnd, m_hRC, status, msgBox, queue,
                   msg, nPosted, nFrames, windowAlive, quitPosted>>

\* initOpenGL, lines 229-230.  A wrapper that resolved nothing ends the
\* process inside the call.
InitCreateContext ==
    /\ proc = "running" /\ pc = "wglCreateContext"
    /\ \E ext \in ExtResults("wglCreateContext"),
          exported \in ExportResults("wglCreateContext"), rv \in {0, 1} :
          /\ InvokeCall("wglCreateContext", m_hDC, ext, exported, rv)
          /\ IF ~Reaches("wglCreateContext", ext, exported)
             THEN UNCHANGED <<pc, m_hRC, thrown, log>>
             ELSE /\ m_hRC' = rv
                  /\ log' = Append(log, "wglCreateContext")
                  /\ IF rv # 0
                     THEN pc' = "wglMakeCurrent" /\ UNCHANGED thrown
                     ELSE Throw
    /\ UNCHANGED <<envVars, raceVars, m_pContext, m_hWnd, m_hDC, status, msgBox, queue,
                   msg, nPosted, nFrames, windowAlive, quitPosted>>

\* initOpenGL, lines 232-233; on success init() (empty, line 107) and the
\* head of mainLoop (lines 238-242) follow.
InitMakeCurrent ==
    /\ proc = "running" /\ pc = "wglMakeCurrent"
    /\ \E ext \in ExtResults("wglMakeCurrent"),
          exported \in ExportResults("wglMakeCurrent"), rv \in {0, 1} :
          /\ InvokeCall("wglMakeCurrent", m_hRC, ext, exported, rv)
          /\ IF ~Reaches("wglMakeCurrent", ext, exported)
             THEN UNCHANGED <<pc, thrown, log>>
             ELSE /\ log' = Append(log, "wglMakeCurrent")
                  /\ IF rv # 0
                     THEN pc' = "PeekMessage" /\ UNCHANGED thrown
                     ELSE Throw
    /\ UNCHANGED <<envVars, raceVars, m_pContext, m_hWnd, m_hDC, m_hRC, status, msgBox,
                   queue, msg, nPosted, nFrames, windowAlive, quitPosted>>

\* The operating system queues a message for the thread.  The queue is
\* looked at in PeekMessage (line 246) and by the message loop that
\* MessageBox runs while the box is shown (line 124), so arrivals are taken
\* there.
OSPost ==
    /\ proc = "running" /\ pc \in {"PeekMessage", "MessageBox"}
    /\ nPosted < MaxMsgs
    /\ \E m \in OSMessages :
          /\ m.message # "WM_QUIT" => windowAlive
          /\ queue' = Append(queue, m)
    /\ nPosted' = nPosted + 1
    /\ lastOp' = [op |-> "post"]
    /\ libUnchanged
    /\ UNCHANGED <<envVars, raceVars, m_pContext, pc, m_hWnd, m_hDC, m_hRC, status,
                   msgBox, msg, nFrames, windowAlive, quitPosted, thrown,
                   log>>

\* The messages of a queue that are addressed to the thread, not to the
\* window: what DestroyWindow leaves in the queue.
ThreadMessages(q) == SelectSeq(q, LAMBDA m : m.message = "WM_QUIT")

\* DispatchMessage(&msg), line 252, for the message m just removed from the
\* queue: GLApplication::windowProcImpl, lines 302-320, reached through
\* windowProc (lines 281-300).  A message for a window that no longer
\* exists reaches no procedure.  WM_DESTROY (lines 306-308) posts the quit
\* message with exit code 0 and returns.  WM_CLOSE falls to DefWindowProc,
\* which destroys the window: DestroyWindow removes the window's messages
\* from the queue and sends WM_DESTROY to the same procedure.  WM_SIZE
\* stores the client size (not modelled).
WindowProcImpl(m) ==
    IF ~windowAlive
    THEN /\ queue' = Tail(queue)
         /\ UNCHANGED <<windowAlive, quitPosted, log>>
    ELSE IF m.message = "WM_DESTROY"
    THEN /\ quitPosted' = 0
         /\ queue' = Tail(queue)
         /\ UNCHANGED <<windowAlive, log>>
    ELSE IF m.message = "WM_CLOSE"
    THEN /\ windowAlive' = FALSE
         /\ quitPosted' = 0
         /\ queue' = ThreadMessages(Tail(queue))
         /\ log' = Append(log, "DestroyWindow")
    ELSE /\ queue' = Tail(queue)
         /\ UNCHANGED <<windowAlive, quitPosted, log>>

\* mainLoop, line 246 with a message that is not WM_QUIT: lines 251-252.
PeekDispatch ==
    /\ proc = "running" /\ pc = "PeekMessage"
    /\ queue # <<>> /\ Head(queue).message # "WM_QUIT"
    /\ msg' = Head(queue)
    /\ WindowProcImpl(Head(queue))
    /\ lastOp' = [op |-> "DispatchMessage"]
    /\ libUnchanged
    /\ UNCHANGED <<envVars, raceVars, m_pContext, pc, m_hWnd, m_hDC, m_hRC, status,
                   msgBox, nPosted, nFrames, thrown>>

PeekQuit_NoBreak ==
    /\ proc = "running" /\ pc = "PeekMessage"
    /\ \/ /\ queue # <<>> /\ Head(queue).message = "WM_QUIT"
          /\ msg' = Head(queue)
          /\ queue' = Tail(queue)
          /\ UNCHANGED quitPosted
       \/ /\ queue = <<>> /\ quitPosted # -1
          /\ msg' = [message |-> "WM_QUIT", wParam |-> quitPosted]
          /\ quitPosted' = -1
          /\ UNCHANGED queue
    /\ lastOp' = [op |-> "WM_QUIT"]
    /\ libUnchanged
    /\ UNCHANGED <<envVars, raceVars, m_pContext, pc, status, m_hWnd, m_hDC, m_hRC,
                   msgBox, nPosted, nFrames, windowAlive, thrown, log>>

\* mainLoop, line 246 with WM_QUIT: a posted one, or the one PeekMessage
\* makes up from PostQuitMessage's pending exit code once the queue is
\* empty.  Lines 248-249 and 255-256 leave both loops, line 263 returns
\* msg.wParam, line 108 stores it, shutdown() (empty) and destroy() follow.
PeekQuit ==
    /\ proc = "running" /\ pc = "PeekMessage"
    /\ \/ /\ queue # <<>> /\ Head(queue).message = "WM_QUIT"
          /\ msg' = Head(queue)
          /\ queue' = Tail(queue)
          /\ UNCHANGED quitPosted
       \/ /\ queue = <<>> /\ quitPosted # -1
          /\ msg' = [message |-> "WM_QUIT", wParam |-> quitPosted]
          /\ quitPosted' = -1
          /\ UNCHANGED queue
    /\ status' = msg'.wParam
    /\ pc' = "destroy"
    /\ lastOp' = [op |-> "WM_QUIT"]
    /\ libUnchanged
    /\ UNCHANGED <<envVars, raceVars, m_pContext, m_hWnd, m_hDC, m_hRC, msgBox, nPosted,
                   nFrames, windowAlive, thrown, log>>

\* mainLoop, line 246 with nothing to retrieve, then line 258: update()
\* (empty).
PeekNone ==
    /\ proc = "running" /\ pc = "PeekMessage"
    /\ queue = <<>> /\ quitPosted = -1
    /\ nFrames < MaxFrames
    /\ pc' = "glViewport"
    /\ log' = Append(log, "update")
    /\ lastOp' = [op |-> "update"]
    /\ libUnchanged
    /\ UNCHANGED <<envVars, raceVars, m_pContext, m_hWnd, m_hDC, m_hRC, status, msgBox,
                   queue, msg, nPosted, nFrames, windowAlive, quitPosted,
                   thrown>>

AfterGl_SkipClear(e) ==
    CASE e = "glViewport" -> "glClearColor"
      [] OTHER            -> "SwapBuffers"

\* The statement of render() after the call of entry point e.
AfterGl(e) ==
    CASE e = "glViewport"   -> "glClearColor"
      [] e = "glClearColor" -> "glClear"
      [] OTHER              -> "SwapBuffers"

\* render, lines 268-270: one gl* wrapper per step.
Render ==
    /\ proc = "running" /\ pc \in GlEntryPoints
    /\ \E ext \in ExtResults(pc), exported \in ExportResults(pc) :
          /\ InvokeCall(pc, 0, ext, exported, 0)
          /\ IF ~Reaches(pc, ext, exported)
             THEN UNCHANGED <<pc, log>>
             ELSE /\ pc' = AfterGl(pc)
                  /\ log' = Append(log, pc)
    /\ UNCHANGED <<envVars, raceVars, m_pContext, m_hWnd, m_hDC, m_hRC, status, msgBox,
                   queue, msg, nPosted, nFrames, windowAlive, quitPosted,
                   thrown>>

\* mainLoop, line 260.
Present ==
    /\ proc = "running" /\ pc = "SwapBuffers"
    /\ SwapBuffersCall(m_hDC)
    /\ nFrames' = nFrames + 1
    /\ pc' = "PeekMessage"
    /\ log' = Append(log, "SwapBuffers")
    /\ UNCHANGED <<envVars, raceVars, m_pContext, m_hWnd, m_hDC, m_hRC, status, msgBox,
                   queue, msg, nPosted, windowAlive, quitPosted, thrown>>

DestroyEntry_SkipContext(hasContext, hRC) == "destroy_dc"

DestroyEntry_NoUnbind(hasContext, hRC) ==
    IF hasContext /\ hRC # 0 THEN "destroy_delete" ELSE "destroy_dc"

\* destroy, line 172: the block that unbinds and deletes the context is
\* entered only with a context object and a native context handle.
DestroyEntry(hasContext, hRC) ==
    IF hasContext /\ hRC # 0 THEN "destroy_unbind" ELSE "destroy_dc"

\* destroy() is entered (line 117, or line 122 in the handler).
DestroyBegin ==
    /\ proc = "running" /\ pc = "destroy"
    /\ pc' = DestroyEntry(m_pContext, m_hRC)
    /\ lastOp' = [op |-> "destroy"]
    /\ libUnchanged
    /\ UNCHANGED <<envVars, raceVars, m_pContext, m_hWnd, m_hDC, m_hRC, status, msgBox,
                   queue, msg, nPosted, nFrames, windowAlive, quitPosted,
                   thrown, log>>

\* destroy, line 174: wglMakeCurrent(m_hDC, nullptr); the result is not
\* looked at.
DestroyUnbind ==
    /\ proc = "running" /\ pc = "destroy_unbind"
    /\ \E ext \in ExtResults("wglMakeCurrent"),
          exported \in ExportResults("wglMakeCurrent"), rv \in {0, 1} :
          /\ InvokeCall("wglMakeCurrent", 0, ext, exported, rv)
          /\ IF ~Reaches("wglMakeCurrent", ext, exported)
             THEN UNCHANGED <<pc, log>>
             ELSE /\ pc' = "destroy_delete"
                  /\ log' = Append(log, "wglMakeCurrent(0)")
    /\ UNCHANGED <<envVars, raceVars, m_pContext, m_hWnd, m_hDC, m_hRC, status, msgBox,
                   queue, msg, nPosted, nFrames, windowAlive, quitPosted,
                   thrown>>

\* destroy, lines 175-176: wglDeleteContext(m_hRC); m_hRC = nullptr.
DestroyDelete ==
    /\ proc = "running" /\ pc = "destroy_delete"
    /\ \E ext \in ExtResults("wglDeleteContext"),
          exported \in ExportResults("wglDeleteContext"), rv \in {0, 1} :
          /\ InvokeCall("wglDeleteContext", m_hRC, ext, exported, rv)
          /\ IF ~Reaches("wglDeleteContext", ext, exported)
             THEN UNCHANGED <<pc, m_hRC, log>>
             ELSE /\ pc' = "destroy_dc"
                  /\ m_hRC' = 0
                  /\ log' = Append(log, "wglDeleteContext")
    /\ UNCHANGED <<envVars, raceVars, m_pContext, m_hWnd, m_hDC, status, msgBox, queue,
                   msg, nPosted, nFrames, windowAlive, quitPosted, thrown>>

\* destroy, lines 179-185: ReleaseDC if a device context is held, then
\* UnregisterClassW.  Back in run: the statement after destroy().
DestroyDC ==
    /\ proc = "running" /\ pc = "destroy_dc"
    /\ m_hDC' = 0
    /\ log' = IF m_hDC # 0 THEN Append(log, "ReleaseDC") ELSE log
    /\ pc' = IF thrown THEN "report" ELSE "return"
    /\ lastOp' = [op |-> "ReleaseDC"]
    /\ libUnchanged
    /\ UNCHANGED <<envVars, raceVars, m_pContext, m_hWnd, m_hRC, status, msgBox, queue,
                   msg, nPosted, nFrames, windowAlive, quitPosted, thrown>>

\* run's handler, lines 123-124, after destroy(): the status is set and the
\* message box is shown.
Report ==
    /\ proc = "running" /\ pc = "report"
    /\ status' = EXIT_FAILURE
    /\ msgBox' = msgBox + 1
    /\ log' = Append(log, "MessageBox")
    /\ pc' = "MessageBox"
    /\ lastOp' = [op |-> "MessageBox"]
    /\ libUnchanged
    /\ UNCHANGED <<envVars, raceVars, m_pContext, m_hWnd, m_hDC, m_hRC, queue, msg,
                   nPosted, nFrames, windowAlive, quitPosted, thrown>>

\* Line 124, while the box is shown: MessageBox has no owner window and runs
\* a message loop of its own, which dispatches the messages of the
\* application's window to windowProc.  mainLoop's msg is not involved.
BoxDispatch ==
    /\ proc = "running" /\ pc = "MessageBox"
    /\ queue # <<>> /\ Head(queue).message # "WM_QUIT"
    /\ WindowProcImpl(Head(queue))
    /\ lastOp' = [op |-> "DispatchMessage"]
    /\ libUnchanged
    /\ UNCHANGED <<envVars, raceVars, m_pContext, pc, m_hWnd, m_hDC, m_hRC, status,
                   msgBox, msg, nPosted, nFrames, thrown>>

\* Line 124, MessageBox returns: the user dismissed the box, or its loop
\* met a quit message, which it leaves pending.
BoxClose ==
    /\ proc = "running" /\ pc = "MessageBox"
    /\ pc' = "return"
    /\ lastOp' = [op |-> "MessageBox"]
    /\ libUnchanged
    /\ UNCHANGED <<envVars, raceVars, m_pContext, m_hWnd, m_hDC, m_hRC, status, msgBox,
                   queue, msg, nPosted, nFrames, windowAlive, quitPosted,
                   thrown, log>>

\* run returns status (line 127), wWinMain returns it (line 325) and the
\* process ends: app's members are released and the static Loader is
\* destroyed.
Return ==
    /\ proc = "running" /\ pc = "return"
    /\ ExitProcess
    /\ m_pContext' = FALSE
    /\ pc' = "done"
    /\ UNCHANGED <<envVars, raceVars, m_hWnd, m_hDC, m_hRC, status, msgBox, queue, msg,
                   nPosted, nFrames, windowAlive, quitPosted, thrown, log>>

Next ==
    \/ Create
    \/ InitCreateForWindow
    \/ InitGetDC
    \/ InitCreateContext
    \/ InitMakeCurrent
    \/ OSPost
    \/ PeekDispatch
    \/ PeekQuit
    \/ PeekNone
    \/ Render
    \/ Present
    \/ DestroyBegin
    \/ DestroyUnbind
    \/ DestroyDelete
    \/ DestroyDC
    \/ Report
    \/ BoxDispatch
    \/ BoxClose
    \/ Return

Spec == Init /\ [][Next]_vars

\* mainLoop's PeekMessage (line 246) with something to retrieve: a message
\* or the pending quit.
Retrieve == PeekDispatch \/ PeekQuit

\* The application with a main loop that keeps polling: a PeekMessage call
\* that has something to retrieve is made and returns.  Nothing else is
\* assumed to happen: messages arrive or not, the other calls return or
\* not.
FairSpec == Init /\ [][Next]_vars /\ WF_vars(Retrieve)

(***************************************************************************)
(* The claims                                                              *)
(***************************************************************************)

\* The values of the extension query that the specification calls failures:
\* null, 1, 2, 3 and all-ones.
FailureValues == {0, 1, 2, 3, AllOnes}

\* C1: whenever wglGetProcAddress returned null, 1, 2, 3 or all-ones for a
\* name, Loader::getProcAddress looked the name up in the library handle and
\* returned exactly what that lookup returned.
C1_FallbackOnFailureValue ==
    (lastResolve.queried /\ lastResolve.ext \in FailureValues)
        => (lastResolve.looked /\ lastResolve.ret = lastResolve.exported)

\* The all-ones answer was given for a name the library exports, and the
\* export's address came back.
C1_Witness ==
    /\ lastResolve.queried
    /\ lastResolve.ext = AllOnes
    /\ lastResolve.looked
    /\ lastResolve.exported = ExportAddr(lastResolve.name)
    /\ lastResolve.ret = lastResolve.exported

\* C2: whenever wglGetProcAddress returned anything else, that value is
\* returned unchanged and no direct lookup is made, whatever the library
\* exports under the name.
C2_ExtensionResultUnchanged ==
    (lastResolve.queried /\ lastResolve.ext \notin FailureValues)
        => (lastResolve.ret = lastResolve.ext /\ ~lastResolve.looked)

\* A usable answer for a name the library exports at another address.
C2_Witness ==
    /\ lastResolve.queried
    /\ lastResolve.ext = ExtAddr(lastResolve.name)
    /\ lastResolve.exported = ExportAddr(lastResolve.name)
    /\ lastResolve.exported # lastResolve.ext
    /\ lastResolve.ret = lastResolve.ext
    /\ ~lastResolve.looked

\* C3: when the extension query fails and the direct lookup finds nothing,
\* getProcAddress returns null as a value: it does not raise, the Loader's
\* handle and extension-query pointer are what they were on entry, and a
\* caller that asked through OpenGLContext::wglGetProcAddress keeps running.
C3_NullIsAnOrdinaryResult ==
    (/\ lastResolve.queried
     /\ lastResolve.ext \in FailureValues
     /\ lastResolve.exported = 0)
        => /\ lastResolve.ret = 0
           /\ ~lastResolve.raised
           /\ lastResolve.hLibOut = lastResolve.hLibIn
           /\ lastResolve.pfnOut = lastResolve.pfnIn
           /\ lastOp.op = "wglGetProcAddress"
                 => /\ proc = "running"
                    /\ m_hLibGL = lastResolve.hLibIn
                    /\ m_pfnWglGetProcAddress = lastResolve.pfnIn

\* Both steps failed for a name asked through wglGetProcAddress.
C3_Witness ==
    /\ lastOp.op = "wglGetProcAddress"
    /\ lastResolve.name = "fnC"
    /\ lastResolve.queried
    /\ lastResolve.ext \in FailureValues
    /\ lastResolve.looked
    /\ lastResolve.exported = 0
    /\ lastResolve.ret = 0
    /\ proc = "running"

OwnerReplaced(e) == e \in WglEntryPoints /\ lastOp'.op = "createForWindow"

C5_LoaderFailureIsReported ==
    (theInstance # "none" /\ m_pfnWglGetProcAddress = 0)
        => /\ nFrames = 0
           /\ proc \in {"running", "exited"}
           /\ pc = "done" => (status = EXIT_FAILURE /\ msgBox > 0)

\* C6: the library is loaded at most once, by the first use of the
\* resolver, and wglGetProcAddress is looked up at most once; the handle is
\* released only at process exit, once if it was acquired and not at all
\* otherwise; at most one handle is held at any time.
C6_OneHandle ==
    /\ nLoadLibrary <= 1
    /\ nWglLookup <= 1
    /\ nLoadLibrary = 1 <=> theInstance # "none"
    /\ handlesHeld \in {0, 1}
    /\ nFreeLibrary > 0 => proc = "exited"
    /\ proc = "exited"
          => /\ handlesHeld = 0
             /\ nFreeLibrary = IF nLoadLibrary = 1 /\ libLoadable THEN 1 ELSE 0

\* Two entry points and a name were resolved, then the process ended and
\* released the one handle.
C6_Witness ==
    /\ proc = "exited"
    /\ nResolve["glClear"] = 1
    /\ nResolve["wglCreateContext"] = 1
    /\ lastResolve.name = "fnC"
    /\ nLoadLibrary = 1
    /\ nWglLookup = 1
    /\ nFreeLibrary = 1

\* C7: a createForWindow that gets no device context returns an empty
\* result, does not choose or set a pixel format and calls the resolver for
\* no entry point: no resolver call is made, the Loader is as it was and no
\* entry-point variable is filled.
C7_NoDCShortCircuit ==
    [][(lastOp'.op = "createForWindow" /\ ~lastOp'.dc)
          => /\ ~lastOp'.ret
             /\ ~m_pContext'
             /\ ~lastOp'.choseFormat
             /\ ~lastOp'.setFormat
             /\ everResolved' = everResolved
             /\ lastResolve' = lastResolve
             /\ loaderVars' = loaderVars
             /\ \A e \in EntryPoints :
                   /\ slot'[e] \in {0, slot[e]}
                   /\ nResolve'[e] \in {0, nResolve[e]}]_vars

C7_Witness ==
    /\ lastOp.op = "createForWindow"
    /\ ~lastOp.dc
    /\ ~lastOp.ret

\* C8, as stated: a createForWindow whose ChoosePixelFormat yields 0 returns
\* an empty result, and no native rendering context is created by it.
C8_NoFormatNoContext ==
    [][(lastOp'.op = "createForWindow" /\ lastOp'.dc /\ lastOp'.pf = 0)
          => /\ ~lastOp'.ret
             /\ ~m_pContext'
             /\ rcState' = rcState]_vars

\* C9: OpenGLContext::SwapBuffers never calls the resolver and never writes
\* an entry-point variable, whatever the state of the Loader.
C9_SwapBuffersBypassesLoader ==
    [][lastOp'.op = "SwapBuffers"
          => /\ slot' = slot
             /\ nResolve' = nResolve
             /\ through' = through
             /\ lastResolve' = lastResolve
             /\ loaderVars' = loaderVars]_vars

\* SwapBuffers was called before anything had used the Loader.
C9_Witness ==
    /\ lastOp.op = "SwapBuffers"
    /\ theInstance = "none"
    /\ m_pContext

\* The positions in the application's log of a call.
LogIndexes(what) == {i \in 1..Len(log) : log[i] = what}

\* C10: in a run that created a rendering context, every wglDeleteContext
\* call comes after a wglMakeCurrent call with a null context that followed
\* the creation, and there is at most one wglDeleteContext call.
C10_UnbindBeforeDelete ==
    rcState # "none"
        => /\ Cardinality(LogIndexes("wglDeleteContext")) <= 1
           /\ \A i \in LogIndexes("wglDeleteContext") :
                 \E j \in LogIndexes("wglMakeCurrent(0)") :
                    /\ j < i
                    /\ \E k \in LogIndexes("wglCreateContext") : k < j

\* The context was created, made current, unbound and deleted.
C10_Witness ==
    /\ rcState = "deleted"
    /\ LogIndexes("wglMakeCurrent") # {}
    /\ LogIndexes("wglMakeCurrent(0)") # {}
    /\ LogIndexes("wglDeleteContext") # {}

\* C11, as stated: the rendering context is deleted, then the device
\* context is released, and both before the window is destroyed: a
\* destroyed window leaves the application with neither handle, and no
\* ReleaseDC precedes the wglDeleteContext call.
C11_TeardownBeforeWindowDestroyed ==
    /\ (m_hWnd # 0 /\ ~windowAlive) => (m_hRC = 0 /\ m_hDC = 0)
    /\ \A i \in LogIndexes("ReleaseDC") :
          \A j \in LogIndexes("wglDeleteContext") : j < i

\* The statements of run that belong to mainLoop.
LoopPcs == {"PeekMessage", "SwapBuffers"} \cup GlEntryPoints

\* The statements of run inside destroy().
DestroyPcs == {"destroy", "destroy_unbind", "destroy_delete", "destroy_dc"}

\* C12: once initOpenGL has thrown (createForWindow, GetDC, context
\* creation or make-current failed), the main loop is never entered, and
\* when run has returned it has shown its message and returns EXIT_FAILURE,
\* holds neither handle, has called wglDeleteContext for a context it had
\* created and ReleaseDC for a device context it had obtained.
C12_InitFailureIsReportedAndCleaned ==
    thrown
        => /\ pc \notin LoopPcs
           /\ nFrames = 0
           /\ LogIndexes("update") = {}
           /\ pc = "done"
                 => /\ status = EXIT_FAILURE
                    /\ msgBox = 1
                    /\ m_hRC = 0
                    /\ m_hDC = 0
                    /\ rcState # "none" => LogIndexes("wglDeleteContext") # {}
                    /\ LogIndexes("wglCreateContext") # {}
                          => LogIndexes("ReleaseDC") # {}

\* make-current failed on a created context; run returned after deleting
\* it and releasing the device context.
C12_Witness ==
    /\ thrown
    /\ pc = "done"
    /\ status = EXIT_FAILURE
    /\ LogIndexes("wglMakeCurrent") # {}
    /\ LogIndexes("wglDeleteContext") # {}
    /\ LogIndexes("ReleaseDC") # {}
    /\ m_hRC = 0

\* C13: every present call is the last of the five consecutive calls
\* update, glViewport, glClearColor, glClear, SwapBuffers, and every
\* completed frame has exactly that shape: one present per update.
C13_FrameOrder ==
    /\ \A i \in LogIndexes("SwapBuffers") :
          /\ i >= 5
          /\ log[i - 1] = "glClear"
          /\ log[i - 2] = "glClearColor"
          /\ log[i - 3] = "glViewport"
          /\ log[i - 4] = "update"
    /\ \A i \in LogIndexes("update") :
          \A k \in 1..4 :
             i + k <= Len(log)
                => log[i + k] = <<"glViewport", "glClearColor", "glClear",
                                  "SwapBuffers">>[k]
    /\ Cardinality(LogIndexes("SwapBuffers")) = nFrames
    /\ Cardinality(LogIndexes("update")) \in {nFrames, nFrames + 1}

\* Two whole frames were produced.
C13_Witness ==
    /\ nFrames = 2
    /\ Cardinality(LogIndexes("SwapBuffers")) = 2
    /\ pc = "PeekMessage"

\* The positions in the log of the calls of rendering entry points.
GlLogIndexes == {i \in 1..Len(log) : log[i] \in GlEntryPoints}

\* C14: a rendering entry point is invoked only with a context object whose
\* pixel format was set, a native context that exists and is current, and
\* after createForWindow, wglCreateContext and wglMakeCurrent in that
\* order; none is invoked once the context has been unbound or deleted.
C14_RenderOnlyWhileCurrent ==
    /\ pc \in GlEntryPoints
          => /\ m_pContext
             /\ m_hRC # 0
             /\ rcState = "created"
             /\ rcCurrent
             /\ LogIndexes("wglMakeCurrent(0)") = {}
             /\ LogIndexes("wglDeleteContext") = {}
    /\ \A i \in GlLogIndexes :
          /\ \E a \in LogIndexes("createForWindow") :
                \E b \in LogIndexes("wglCreateContext") :
                   \E c \in LogIndexes("wglMakeCurrent") :
                      a < b /\ b < c /\ c < i
          /\ \A j \in LogIndexes("wglMakeCurrent(0)")
                        \cup LogIndexes("wglDeleteContext") : i < j

\* A frame was rendered and the context was unbound and deleted afterwards.
C14_Witness ==
    /\ GlLogIndexes # {}
    /\ LogIndexes("wglMakeCurrent(0)") # {}
    /\ LogIndexes("wglDeleteContext") # {}
    /\ rcState = "deleted"

\* The resolver was stable for the two threads: every resolution gave the
\* one usable address a.
StableAt(a) == resolved = {a} /\ a # 0

\* C15: when two threads invoke one wrapper with an empty variable and the
\* resolver gives every resolution the same address, every call either
\* thread makes goes through that address, the variable never holds
\* anything else, and it holds the address once both threads are through.
C15_RaceIsBenign ==
    \A a \in {ExportAddr(RaceEntry), ExtAddr(RaceEntry)} :
       StableAt(a)
          => /\ through[RaceEntry] \subseteq {a}
             /\ slot[RaceEntry] \in {0, a}
             /\ proc = "running"
             /\ \A t \in Threads :
                   tpc[t] = "done" => through[RaceEntry] = {a}
             /\ (\A t \in Threads : tpc[t] = "done")
                   => slot[RaceEntry] = a

\* Both threads found the variable empty, each asked the resolver, both
\* called through the address and returned.
C15_Witness ==
    /\ \A t \in Threads : tpc[t] = "done"
    /\ nResolve[RaceEntry] = 2
    /\ StableAt(ExtAddr(RaceEntry))
    /\ through[RaceEntry] = {ExtAddr(RaceEntry)}
    /\ slot[RaceEntry] = ExtAddr(RaceEntry)

\* The positions in the log of the teardown calls of destroy().
TeardownIndexes ==
    LogIndexes("wglMakeCurrent(0)") \cup LogIndexes("wglDeleteContext")
        \cup LogIndexes("ReleaseDC")

\* C16, as stated: in run's handler the message is shown first and the
\* teardown comes after it.
C16_MessageBeforeTeardown ==
    thrown
        => /\ pc \in {"destroy_unbind", "destroy_delete", "destroy_dc"}
                 => msgBox > 0
           /\ \A i \in TeardownIndexes :
                 \E j \in LogIndexes("MessageBox") : j < i

\* C16, amended: in run's handler destroy() runs first and to its end; the
\* message is shown after it, when neither handle is held any more.
C16_TeardownBeforeMessage ==
    /\ msgBox > 0 => thrown
    /\ thrown
          => /\ pc \in DestroyPcs => msgBox = 0
             /\ msgBox > 0
                   => /\ pc \in {"MessageBox", "return", "done"}
                      /\ m_hRC = 0
                      /\ m_hDC = 0
                      /\ \A i \in TeardownIndexes :
                            \A j \in LogIndexes("MessageBox") : i < j

\* The message was shown after a device context had been released.
C16_Witness ==
    /\ thrown
    /\ msgBox = 1
    /\ LogIndexes("ReleaseDC") # {}
    /\ LogIndexes("MessageBox") # {}

\* C17: a Loader without extension-query function answers null for every
\* name and makes neither the extension query nor the direct lookup,
\* whatever the loaded library exports.
C17_NoQueryFunctionNoLookup ==
    (lastResolve.name # "" /\ lastResolve.pfnIn = 0)
        => /\ lastResolve.ret = 0
           /\ ~lastResolve.queried
           /\ ~lastResolve.looked

\* The library loaded without wglGetProcAddress and exports the name asked.
C17_Witness ==
    /\ lastResolve.name # ""
    /\ lastResolve.pfnIn = 0
    /\ lastResolve.hLibIn # 0
    /\ lastResolve.exported = ExportAddr(lastResolve.name)
    /\ lastResolve.ret = 0

\* C18: after a failed create() run is at its return statement or past it
\* (never in initOpenGL, mainLoop or destroy), with status 0, no message,
\* no call made and the Loader untouched.
C18_CreateFailureIsSilent ==
    (pc # "start" /\ m_hWnd = 0)
        => /\ pc \in {"return", "done"}
           /\ status = 0
           /\ msgBox = 0
           /\ ~thrown
           /\ log = <<>>
           /\ theInstance = "none"
           /\ ~m_pContext

\* run has returned after a failed create().
C18_Witness ==
    /\ pc = "done"
    /\ m_hWnd = 0
    /\ status = 0
    /\ proc = "exited"

\* A quit message is waiting: posted to the queue, or pending from
\* PostQuitMessage.
QuitPending ==
    \/ quitPosted # -1
    \/ \E i \in DOMAIN queue : queue[i].message = "WM_QUIT"

\* The positions of run() inside the frame of a loop iteration.
FramePcs == GlEntryPoints \cup {"SwapBuffers"}

\* C19: mainLoop starts an iteration's frame only when nothing is left to
\* retrieve; once the quit message is retrieved nothing more is dispatched,
\* updated, rendered or presented and the loop returns the message's wParam
\* as the status; a quit message that is waiting makes the loop end.
C19_MainLoop ==
    /\ [][(pc' \in FramePcs /\ pc \notin FramePcs)
             => (queue = <<>> /\ quitPosted = -1 /\ pc = "PeekMessage")]_vars
    /\ [][msg.message = "WM_QUIT"
             => /\ pc' \notin LoopPcs
                /\ nFrames' = nFrames
                /\ msg' = msg
                /\ LogIndexes("update")' = LogIndexes("update")
                /\ LogIndexes("SwapBuffers")' = LogIndexes("SwapBuffers")
                /\ GlLogIndexes' = GlLogIndexes]_vars
    /\ [][(pc = "PeekMessage" /\ pc' # "PeekMessage" /\ pc' \notin FramePcs)
             => (msg'.message = "WM_QUIT" /\ status' = msg'.wParam)]_vars
    /\ [](pc \in FramePcs => (queue = <<>> /\ ~QuitPending))
    /\ []((msg.message = "WM_QUIT" /\ ~thrown /\ pc \in {"return", "done"})
             => status = msg.wParam)
    /\ ((pc \in LoopPcs /\ proc = "running" /\ QuitPending)
           ~> (pc \notin LoopPcs \/ proc # "running"))

\* The loop dispatched a message, ran a frame, retrieved a posted quit
\* message and run returned its wParam.
C19_Witness ==
    /\ pc = "done"
    /\ msg = [message |-> "WM_QUIT", wParam |-> 3]
    /\ status = 3
    /\ nFrames > 0
    /\ nPosted = MaxMsgs
    /\ ~thrown

====
